---------------------------- MODULE Spec2Model ----------------------------
(***************************************************************************)
(* Nearest-facility search of antivenom_app: coordinate validation,        *)
(* haversine distance, filtering, ranking (rankByDistance) and the use     *)
(* case getNearestCentros that wraps it.                                   *)
(*                                                                         *)
(* JavaScript values are records tagged with their typeof: the code        *)
(* branches on undefined / null / "" / NaN, so the model keeps them apart. *)
(* Numbers are fixed point: a coordinate is a whole number of degrees, an  *)
(* angle is radians * Scale, a distance (distanceKm) is a whole number of  *)
(* metres.                                                                 *)
(***************************************************************************)
EXTENDS Integers, Sequences, FiniteSets, TLC

(***************************************************************************)
(* Bounds of the model.                                                    *)
(***************************************************************************)
\* Longest facility list passed to a search.
MaxCentros == 3

\* Number of loadCentros calls.
MaxLoads == 3

\* How many fetchNearest calls of the useNearestCentros hook are followed.
MaxFetches == 2

\* How many setPosition and remove calls of a UserMarkerManager are followed.
MaxCalls == 5

\* How many geolocation requests of useUserLocation are pending at once.
MaxPending == 3

\* Fixed-point units: Scale is 1 radian (and the number 1), KmUnit is 1 km.
Scale == 10 ^ 6

KmUnit == 10 ^ 3

(***************************************************************************)
(* JavaScript values.                                                      *)
(***************************************************************************)
Undefined == [type |-> "undefined"]

Null == [type |-> "null"]

Num(n) == [type |-> "number", nan |-> FALSE, v |-> n]

NaN == [type |-> "number", nan |-> TRUE, v |-> 0]

Str(s) == [type |-> "string", v |-> s]

Arr(items) == [type |-> "array", items |-> items]

\* ToBoolean(x) = false, as the `!x` tests of the filters use it.
Falsy(x) ==
    \/ x.type \in {"undefined", "null"}
    \/ x.type = "string" /\ x.v = ""
    \/ x.type = "number" /\ (x.nan \/ x.v = 0)

\* What a call does: it returns a value or it throws.
Return(v) == [completion |-> "return", value |-> v]

Throw(e) == [completion |-> "throw", value |-> e]

(***************************************************************************)
(* domain/geo/types                                                        *)
(***************************************************************************)
Coordinates(lat, lng) == [type |-> "object", latitude |-> lat, longitude |-> lng]

\* isValidCoordinates with open bounds: the poles and the antimeridian rejected.
isValidCoordinates_OpenBounds(obj) ==
    IF obj.type # "object"
    THEN FALSE
    ELSE /\ obj.latitude.type = "number"
         /\ obj.longitude.type = "number"
         /\ ~obj.latitude.nan
         /\ ~obj.longitude.nan
         /\ obj.latitude.v > -90
         /\ obj.latitude.v < 90
         /\ obj.longitude.v > -180
         /\ obj.longitude.v < 180

isValidCoordinates(obj) ==
    IF obj.type # "object"
    THEN FALSE
    ELSE /\ obj.latitude.type = "number"
         /\ obj.longitude.type = "number"
         /\ ~obj.latitude.nan
         /\ ~obj.longitude.nan
         /\ obj.latitude.v >= -90
         /\ obj.latitude.v <= 90
         /\ obj.longitude.v >= -180
         /\ obj.longitude.v <= 180

\* createCoordinates bringing an out-of-range number to the nearest bound.
createCoordinates_Clamped(latitude, longitude) ==
    IF latitude.type # "number" \/ longitude.type # "number"
    THEN Throw("Invalid coordinates")
    ELSE IF latitude.nan \/ longitude.nan
    THEN Throw("Invalid coordinates")
    ELSE Return(Coordinates(
             Num(IF latitude.v > 90 THEN 90
                 ELSE IF latitude.v < -90 THEN -90 ELSE latitude.v),
             Num(IF longitude.v > 180 THEN 180
                 ELSE IF longitude.v < -180 THEN -180 ELSE longitude.v)))

\* The validated object, or the Error of an invalid pair.
createCoordinates(latitude, longitude) ==
    LET coords == Coordinates(latitude, longitude)
    IN  IF ~isValidCoordinates(coords)
        THEN Throw("Invalid coordinates")
        ELSE Return(coords)

(***************************************************************************)
(* IEEE arithmetic in fixed point.  Products are formed from halves so     *)
(* that no intermediate value leaves 32 bits, and division truncates       *)
(* toward zero because IEEE arithmetic is sign-symmetric.  Math.sin,       *)
(* Math.cos, Math.sqrt and Math.asin are exact to a few units of           *)
(* 1 / Scale.  The helpers are functions, so that an argument is           *)
(* evaluated once.                                                         *)
(***************************************************************************)
PI == 3141593

Abs(n) == IF n < 0 THEN -n ELSE n

\* n / d, truncated toward zero (d > 0).
Quot[n \in Int, d \in Int] == IF n < 0 THEN -((-n) \div d) ELSE n \div d

\* (ah * 1000 + al) * (bh * 1000 + bl) / Scale for non-negative halves.
MulHalves[ah \in Int, al \in Int, bh \in Int, bl \in Int] ==
    ah * bh + (ah * bl + al * bh) \div 1000 + (al * bl) \div Scale

\* a * b for two fixed-point numbers: (a * b) / Scale.
Mul[a \in Int, b \in Int] ==
    (IF (a < 0) = (b < 0) THEN 1 ELSE -1)
    * MulHalves[Abs(a) \div 1000, Abs(a) % 1000, Abs(b) \div 1000, Abs(b) % 1000]

\* v ** 2
Square[v \in Int] == Mul[v, v]

\* Taylor series of sin, terms up to x^11, in Horner form; x2 is x ** 2.
SinHorner[x \in Int, x2 \in Int] ==
    Mul[x, Scale - Mul[x2, Scale - Mul[x2, Scale - Mul[x2, Scale - Mul[x2,
        Scale - x2 \div 110] \div 72] \div 42] \div 20] \div 6]

\* sin on [0, PI/2].
SinSeries[x \in Int] == SinHorner[x, Square[x]]

\* Math.sin on [-PI, PI].
Sin[x \in Int] ==
    (IF x < 0 THEN -1 ELSE 1)
    * SinSeries[IF Abs(x) > PI \div 2 THEN PI - Abs(x) ELSE Abs(x)]

\* Math.cos on [-PI/2, PI/2].
Cos[x \in Int] == Sin[PI \div 2 - Abs(x)]

\* The greatest r in lo..hi with r * r <= a, by bisection; mid is their middle.
SqrtBetween[a \in Int, lo \in Int, hi \in Int, mid \in Int] ==
    IF lo >= hi
    THEN lo
    ELSE IF Square[mid] <= a
    THEN SqrtBetween[a, mid, hi, (mid + hi + 1) \div 2]
    ELSE SqrtBetween[a, lo, mid - 1, (lo + mid) \div 2]

\* Math.sqrt on [0, 1].
Sqrt[a \in Int] == SqrtBetween[a, 0, Scale, (Scale + 1) \div 2]

\* The greatest t in lo..hi with sin(t) <= y, by bisection; mid is their middle.
AsinBetween[y \in Int, lo \in Int, hi \in Int, mid \in Int] ==
    IF lo >= hi
    THEN lo
    ELSE IF SinSeries[mid] <= y
    THEN AsinBetween[y, mid, hi, (mid + hi + 1) \div 2]
    ELSE AsinBetween[y, lo, mid - 1, (lo + mid) \div 2]

\* Math.asin on [0, 1].
Asin[y \in Int] == AsinBetween[y, 0, PI \div 2, (PI \div 2 + 1) \div 2]

\* Math.round(n / d) for n >= 0, d > 0: the nearest integer, a half rounds up.
RoundDiv(n, d) == (2 * n + d) \div (2 * d)

\* km kilometres times the fixed-point number c, in metres.
KmTimes[km \in Int, c \in Int] ==
    km * (c \div KmUnit) + (km * (c % KmUnit)) \div KmUnit

(***************************************************************************)
(* domain/geo/haversineDistance                                            *)
(***************************************************************************)
EARTH_RADIUS_KM == 6371

toRadians(degrees) == Quot[degrees * PI, 180]

\* haversineDistance by the spherical law of cosines, without the shortcut
\* for identical points: acos rounds a cosine just below 1 to a distance.
haversineDistance_CosineLaw(point1, point2) ==
    IF ~isValidCoordinates(point1)
    THEN Throw("Invalid origin coordinates")
    ELSE IF ~isValidCoordinates(point2)
    THEN Throw("Invalid destination coordinates")
    ELSE LET dLon    == toRadians(point2.longitude.v - point1.longitude.v)
             lat1Rad == toRadians(point1.latitude.v)
             lat2Rad == toRadians(point2.latitude.v)
             cosine  == Mul[Sin[lat1Rad], Sin[lat2Rad]]
                        + Mul[Mul[Cos[lat1Rad], Cos[lat2Rad]], Sin[PI \div 2 - Abs(dLon)]]
             c       == PI \div 2 - Asin[IF cosine > Scale THEN Scale ELSE cosine]
         IN  Return(KmTimes[EARTH_RADIUS_KM, c])

\* haversineDistance taking the shortcut for identical points before it
\* validates them.
haversineDistance_ShortcutFirst(point1, point2) ==
    IF point1 = point2
    THEN Return(0)
    ELSE IF ~isValidCoordinates(point1)
    THEN Throw("Invalid origin coordinates")
    ELSE IF ~isValidCoordinates(point2)
    THEN Throw("Invalid destination coordinates")
    ELSE LET dLat    == toRadians(point2.latitude.v - point1.latitude.v)
             dLon    == toRadians(point2.longitude.v - point1.longitude.v)
             lat1Rad == toRadians(point1.latitude.v)
             lat2Rad == toRadians(point2.latitude.v)
             a       == Square[Sin[Quot[dLat, 2]]]
                        + Mul[Mul[Cos[lat1Rad], Cos[lat2Rad]],
                              Square[Sin[Quot[dLon, 2]]]]
             c       == 2 * Asin[Sqrt[a]]
         IN  Return(KmTimes[EARTH_RADIUS_KM, c])

\* Metres between two points, or the Error of an invalid point.
haversineDistance(point1, point2) ==
    IF ~isValidCoordinates(point1)
    THEN Throw("Invalid origin coordinates")
    ELSE IF ~isValidCoordinates(point2)
    THEN Throw("Invalid destination coordinates")
    ELSE IF /\ point1.latitude = point2.latitude
            /\ point1.longitude = point2.longitude
    THEN Return(0)
    ELSE LET dLat    == toRadians(point2.latitude.v - point1.latitude.v)
             dLon    == toRadians(point2.longitude.v - point1.longitude.v)
             lat1Rad == toRadians(point1.latitude.v)
             lat2Rad == toRadians(point2.latitude.v)
             a       == Square[Sin[Quot[dLat, 2]]]
                        + Mul[Mul[Cos[lat1Rad], Cos[lat2Rad]],
                              Square[Sin[Quot[dLon, 2]]]]
             c       == 2 * Asin[Sqrt[a]]
         IN  Return(KmTimes[EARTH_RADIUS_KM, c])

\* formatDistance choosing its band after rounding to a tenth of a kilometre.
formatDistance_RoundedBands(distanceKm) ==
    IF distanceKm.nan
    THEN "NaN km"
    ELSE IF distanceKm.v < 0
    THEN "0 m"
    ELSE IF distanceKm.v < 1 * KmUnit
    THEN ToString(RoundDiv(distanceKm.v * 1000, KmUnit)) \o " m"
    ELSE IF RoundDiv(distanceKm.v * 10, KmUnit) < 100
    THEN LET tenths == RoundDiv(distanceKm.v * 10, KmUnit)
         IN  ToString(tenths \div 10) \o "." \o ToString(tenths % 10) \o " km"
    ELSE ToString(RoundDiv(distanceKm.v, KmUnit)) \o " km"

\* The label of a distance, a number of metres.  Every comparison with NaN
\* is false and Math.round(NaN) is NaN.  toFixed(1) rounds the binary value
\* of the number, which this resolution renders except where a distance is
\* an odd multiple of 50 m that binary does not represent exactly.
formatDistance(distanceKm) ==
    IF distanceKm.nan
    THEN "NaN km"
    ELSE IF distanceKm.v < 0
    THEN "0 m"
    ELSE IF distanceKm.v < 1 * KmUnit
    THEN ToString(RoundDiv(distanceKm.v * 1000, KmUnit)) \o " m"
    ELSE IF distanceKm.v < 10 * KmUnit
    THEN LET tenths == RoundDiv(distanceKm.v * 10, KmUnit)
         IN  ToString(tenths \div 10) \o "." \o ToString(tenths % 10) \o " km"
    ELSE ToString(RoundDiv(distanceKm.v, KmUnit)) \o " km"

(***************************************************************************)
(* domain/models: Centro, NearestCentroResult, DEFAULT_SEARCH_OPTIONS      *)
(***************************************************************************)
Centro(id, uf, lat, lng, tiposSoro) ==
    [id |-> id, uf |-> Str(uf), latitude |-> lat, longitude |-> lng,
     tiposSoro |-> Arr(tiposSoro)]

DEFAULT_SEARCH_OPTIONS == [limit |-> 5]

\* An options object; an absent key reads as Undefined.
SearchOptions(limit, maxRadiusKm, tipoSoro, uf) ==
    [type |-> "object", limit |-> limit, maxRadiusKm |-> maxRadiusKm,
     tipoSoro |-> tipoSoro, uf |-> uf]

(***************************************************************************)
(* The inputs of a search.                                                 *)
(***************************************************************************)
\* B and C are equally far from A; X has a latitude no validation accepts.
CentroA == Centro("A", "SP", Num(-23), Num(-46), <<Str("Antibotropico")>>)

CentroB == Centro("B", "RJ", Num(-23), Num(-43), <<Str("Antibotropico ampla")>>)

CentroC ==
    Centro("C", "SP", Num(-23), Num(-49), <<Str("Anticrotalico"), Str("Antibotropico")>>)

CentroX == Centro("X", "MG", Num(91), Num(-46), <<Str("Antibotropico")>>)

Catalog == {CentroA, CentroB, CentroC, CentroX}

\* Lists of distinct facilities, at most MaxCentros long.
CentroLists ==
    UNION {{list \in [1..n -> Catalog] :
              \A i, j \in 1..n : list[i] = list[j] => i = j} : n \in 0..MaxCentros}

\* A facility collection: a list, or absent.
CentrosChoices == {Arr(list) : list \in CentroLists} \cup {Null, Undefined}

AtCentroA == Coordinates(Num(-23), Num(-46))

NearCentroB == Coordinates(Num(-22), Num(-43))

\* Two valid origins, then out of range, NaN and not an object.
UserLocationChoices ==
    {AtCentroA, NearCentroB, Coordinates(Num(200), Num(0)),
     Coordinates(Num(-23), NaN), Null}

\* The distance from AtCentroA to CentroB and to CentroC, in metres.
TieDistance ==
    haversineDistance(AtCentroA, Coordinates(CentroB.latitude, CentroB.longitude)).value

LimitChoices == {Undefined, Num(-1), Num(0), Num(1), Num(2)}

MaxRadiusKmChoices == {Undefined, Num(0), Num(TieDistance)}

TipoSoroChoices ==
    {Undefined, Str(""), Str("Antibotropico"), Str("Antibotropico ampla")}

UfChoices == {Undefined, Str(""), Str("SP"), Str("sp")}

OptionsChoices ==
    {SearchOptions(limit, maxRadiusKm, tipoSoro, uf) :
        limit \in LimitChoices, maxRadiusKm \in MaxRadiusKmChoices,
        tipoSoro \in TipoSoroChoices, uf \in UfChoices}
    \cup {Undefined, Null}

\* Every point a search of these inputs measures from or to.
PointChoices ==
    UserLocationChoices \cup {Coordinates(c.latitude, c.longitude) : c \in Catalog}

\* haversineDistance over the points of the model, evaluated once.
HaversineTable ==
    [point1 \in PointChoices, point2 \in PointChoices |->
        haversineDistance(point1, point2)]

(***************************************************************************)
(* Array.prototype methods the ranking uses.                               *)
(***************************************************************************)
\* array.includes(x)
Includes(array, x) == \E i \in 1..Len(array.items) : array.items[i] = x

\* compareDistance with its operands exchanged: farthest first.
compareDistance_Reversed(a, b) == b.distanceKm - a.distanceKm

\* The comparator sortByDistance passes to array.sort.
compareDistance(a, b) == a.distanceKm - b.distanceKm

RECURSIVE InsertSorted_BeforeEqual(_, _)
\* InsertSorted putting e before the elements it compares equal to.
InsertSorted_BeforeEqual(seq, e) ==
    IF seq = <<>>
    THEN <<e>>
    ELSE IF compareDistance(e, Head(seq)) <= 0
    THEN <<e>> \o seq
    ELSE <<Head(seq)>> \o InsertSorted_BeforeEqual(Tail(seq), e)

RECURSIVE InsertSorted(_, _)
\* seq is sorted: e goes after every element it does not compare less than.
InsertSorted(seq, e) ==
    IF seq = <<>>
    THEN <<e>>
    ELSE IF compareDistance(e, Head(seq)) < 0
    THEN <<e>> \o seq
    ELSE <<Head(seq)>> \o InsertSorted(Tail(seq), e)

RECURSIVE StableSort(_)
\* array.sort(compareDistance): stable, as ECMAScript 2019 requires.
StableSort(seq) ==
    IF seq = <<>>
    THEN <<>>
    ELSE InsertSorted(StableSort(SubSeq(seq, 1, Len(seq) - 1)), seq[Len(seq)])

\* Slice0 with the end index taken as inclusive.
Slice0_EndInclusive(seq, end) ==
    SubSeq(seq, 1, IF end + 1 > Len(seq) THEN Len(seq) ELSE end + 1)

\* array.slice(0, end) for an integer end: a negative end counts from the back.
Slice0(seq, end) ==
    LET final == IF end < 0
                 THEN (IF Len(seq) + end < 0 THEN 0 ELSE Len(seq) + end)
                 ELSE (IF end > Len(seq) THEN Len(seq) ELSE end)
    IN  SubSeq(seq, 1, final)

\* The first throw of a sequence of completions, if any.
FirstThrow(completions) ==
    LET thrown == SelectSeq(completions, LAMBDA c : c.completion = "throw")
    IN  IF thrown = <<>> THEN Return(Undefined) ELSE Head(thrown)

(***************************************************************************)
(* domain/geo/rankByDistance                                               *)
(***************************************************************************)
\* calculateCentroDistance labelling every distance in whole kilometres.
calculateCentroDistance_KmLabel(centro, userLocation) ==
    LET centroLocation == Coordinates(centro.latitude, centro.longitude)
        distanceKm     == HaversineTable[userLocation, centroLocation]
    IN  IF distanceKm.completion = "throw"
        THEN distanceKm
        ELSE Return([centro |-> centro,
                     distanceKm |-> distanceKm.value,
                     distanceFormatted |->
                         ToString(RoundDiv(distanceKm.value, KmUnit)) \o " km"])

calculateCentroDistance(centro, userLocation) ==
    LET centroLocation == Coordinates(centro.latitude, centro.longitude)
        distanceKm     == HaversineTable[userLocation, centroLocation]
    IN  IF distanceKm.completion = "throw"
        THEN distanceKm
        ELSE Return([centro |-> centro,
                     distanceKm |-> distanceKm.value,
                     distanceFormatted |-> formatDistance(Num(distanceKm.value))])

\* String.prototype.toUpperCase on the uf values of the model.
ToUpperCase(string) == IF string = Str("sp") THEN Str("SP") ELSE string

\* filterByUf comparing without regard to case.
filterByUf_IgnoreCase(results, uf) ==
    IF Falsy(uf)
    THEN results
    ELSE SelectSeq(results, LAMBDA r : ToUpperCase(r.centro.uf) = ToUpperCase(uf))

\* filterByUf taking only undefined as absent: "" is compared like any uf.
filterByUf_EmptyBinds(results, uf) ==
    IF uf = Undefined
    THEN results
    ELSE SelectSeq(results, LAMBDA r : r.centro.uf = uf)

filterByUf(results, uf) ==
    IF Falsy(uf)
    THEN results
    ELSE SelectSeq(results, LAMBDA r : r.centro.uf = uf)

\* string.includes(part): part occurs somewhere in string.
StringIncludes(string, part) ==
    \E i \in 1..(Len(string) - Len(part) + 1) :
        SubSeq(string, i, i + Len(part) - 1) = part

\* filterByTipoSoro matching a tag that contains the value.
filterByTipoSoro_Substring(results, tipoSoro) ==
    IF Falsy(tipoSoro)
    THEN results
    ELSE SelectSeq(results,
                LAMBDA r : \E i \in 1..Len(r.centro.tiposSoro.items) :
                    StringIncludes(r.centro.tiposSoro.items[i].v, tipoSoro.v))

filterByTipoSoro(results, tipoSoro) ==
    IF Falsy(tipoSoro)
    THEN results
    ELSE SelectSeq(results, LAMBDA r : Includes(r.centro.tiposSoro, tipoSoro))

\* filterByRadius with an exclusive boundary.
filterByRadius_Exclusive(results, maxRadiusKm) ==
    IF maxRadiusKm = Undefined
    THEN results
    ELSE SelectSeq(results, LAMBDA r : ~maxRadiusKm.nan /\ r.distanceKm < maxRadiusKm.v)

\* maxRadiusKm is a number of metres, like distanceKm.
filterByRadius(results, maxRadiusKm) ==
    IF maxRadiusKm = Undefined
    THEN results
    ELSE SelectSeq(results, LAMBDA r : ~maxRadiusKm.nan /\ r.distanceKm <= maxRadiusKm.v)

\* sortByDistance that returns its input as it is.
sortByDistance_Unsorted(results) == results

\* [...results].sort(...): the copy is sorted, results is left as it was.
sortByDistance(results) == StableSort(results)

\* rankByDistance measuring only the facilities the uf filter keeps.
rankByDistance_FilterFirst(centros, userLocation, options) ==
    IF options = Null
    THEN Throw("TypeError")
    ELSE IF centros.type # "array"
    THEN Throw("TypeError")
    ELSE
    LET opts        == IF options = Undefined
                       THEN SearchOptions(Undefined, Undefined, Undefined, Undefined)
                       ELSE options
        limit       == IF opts.limit = Undefined
                       THEN DEFAULT_SEARCH_OPTIONS.limit
                       ELSE opts.limit.v
        kept        == IF Falsy(opts.uf)
                       THEN centros.items
                       ELSE SelectSeq(centros.items, LAMBDA c : c.uf = opts.uf)
        mapped      == [i \in 1..Len(kept) |->
                          calculateCentroDistance(kept[i], userLocation)]
    IN  IF FirstThrow(mapped).completion = "throw"
        THEN FirstThrow(mapped)
        ELSE LET results0 == [i \in 1..Len(mapped) |-> mapped[i].value]
                 results2 == filterByTipoSoro(results0, opts.tipoSoro)
                 results3 == filterByRadius(results2, opts.maxRadiusKm)
                 results4 == sortByDistance(results3)
             IN  Return(Slice0(results4, limit))

rankByDistance(centros, userLocation, options) ==
    IF options = Null
    THEN Throw("TypeError")                  \* destructuring null
    ELSE IF centros.type # "array"
    THEN Throw("TypeError")                  \* centros.length
    ELSE
    LET opts        == IF options = Undefined
                       THEN SearchOptions(Undefined, Undefined, Undefined, Undefined)
                       ELSE options
        limit       == IF opts.limit = Undefined
                       THEN DEFAULT_SEARCH_OPTIONS.limit
                       ELSE opts.limit.v
        maxRadiusKm == opts.maxRadiusKm
        tipoSoro    == opts.tipoSoro
        uf          == opts.uf
        \* Step 1: Calculate distances for all centros
        mapped      == [i \in 1..Len(centros.items) |->
                          calculateCentroDistance(centros.items[i], userLocation)]
    IN  IF FirstThrow(mapped).completion = "throw"
        THEN FirstThrow(mapped)
        ELSE LET results0 == [i \in 1..Len(mapped) |-> mapped[i].value]
                 \* Step 2: Apply filters
                 results1 == filterByUf(results0, uf)
                 results2 == filterByTipoSoro(results1, tipoSoro)
                 results3 == filterByRadius(results2, maxRadiusKm)
                 \* Step 3: Sort by distance
                 results4 == sortByDistance(results3)
                 \* Step 4: Apply limit
                 finalResults == Slice0(results4, limit)
             IN  Return(finalResults)

(***************************************************************************)
(* application/usecases/getNearestCentros                                  *)
(***************************************************************************)
InvalidLocation == "Localização inválida. Não foi possível determinar sua posição."

NoData == "Nenhum centro de distribuição disponível."

ComputationError == "Erro ao calcular distâncias. Tente novamente."

Success(results) == [success |-> TRUE, results |-> results]

\* A failure that also carries a results list.
Failure_WithResults(error) == [success |-> FALSE, error |-> error, results |-> <<>>]

Failure(error) == [success |-> FALSE, error |-> error]

\* The try / catch reporting a ranking that found nothing as the NoData failure.
RankingOutcome_EmptyIsNoData(results) ==
    IF results.completion = "throw"
    THEN Return(Failure(ComputationError))
    ELSE IF results.value = <<>>
    THEN Return(Failure(NoData))
    ELSE Return(Success(results.value))

\* The try / catch around the ranking: what it makes of its completion.
RankingOutcome(results) ==
    IF results.completion = "throw"
    THEN Return(Failure(ComputationError))
    ELSE Return(Success(results.value))

\* getNearestCentros validating the collection before the origin.
getNearestCentros_DataFirst(centros, userLocation, options) ==
    IF centros.type # "array"
    THEN Throw("TypeError")
    ELSE IF Falsy(centros) \/ Len(centros.items) = 0
    THEN Return(Failure(NoData))
    ELSE IF ~isValidCoordinates(userLocation)
    THEN Return(Failure(InvalidLocation))
    ELSE RankingOutcome(rankByDistance(centros, userLocation, options))

\* getNearestCentros without the check for an empty collection.
getNearestCentros_NoEmptyCheck(centros, userLocation, options) ==
    IF centros.type # "array"
    THEN Throw("TypeError")
    ELSE IF ~isValidCoordinates(userLocation)
    THEN Return(Failure(InvalidLocation))
    ELSE RankingOutcome(rankByDistance(centros, userLocation, options))

\* getNearestCentros without its try / catch.
getNearestCentros_NoCatch(centros, userLocation, options) ==
    IF centros.type # "array"
    THEN Throw("TypeError")
    ELSE IF ~isValidCoordinates(userLocation)
    THEN Return(Failure(InvalidLocation))
    ELSE IF Falsy(centros) \/ Len(centros.items) = 0
    THEN Return(Failure(NoData))
    ELSE LET results == rankByDistance(centros, userLocation, options)
         IN  IF results.completion = "throw"
             THEN results
             ELSE Return(Success(results.value))

getNearestCentros(centros, userLocation, options) ==
    IF centros.type # "array"
    THEN Throw("TypeError")          \* centros.length in the first log call
    ELSE IF ~isValidCoordinates(userLocation)
    THEN Return(Failure(InvalidLocation))
    ELSE IF Falsy(centros) \/ Len(centros.items) = 0
    THEN Return(Failure(NoData))
    ELSE RankingOutcome(rankByDistance(centros, userLocation, options))

(***************************************************************************)
(* What a search leaves in the caller's facility list.  rankByDistance     *)
(* reads centros once, in centros.map, which builds the results array;     *)
(* the filters, the spread of sortByDistance and slice build new arrays    *)
(* too, and sort orders the spread copy.  getNearestCentros reads          *)
(* centros.length and passes the list on.                                  *)
(***************************************************************************)
\* A ranking that cuts the caller's list to limit entries (centros.length = limit).
centrosAfterRanking_Truncated(centros, userLocation, options) ==
    IF centros.type # "array" \/ options = Null \/ options = Undefined
    THEN centros
    ELSE IF options.limit = Undefined
    THEN centros
    ELSE Arr(Slice0(centros.items, options.limit.v))

\* A ranking that leaves the caller's list in the opposite order.
centrosAfterRanking_Reversed(centros, userLocation, options) ==
    IF centros.type # "array"
    THEN centros
    ELSE Arr([i \in 1..Len(centros.items) |->
                 centros.items[Len(centros.items) + 1 - i]])

centrosAfterRanking(centros, userLocation, options) == centros

(***************************************************************************)
(* State: the arguments of a search, and what each call did with them.     *)
(***************************************************************************)
VARIABLES
    centros,        \* the facility collection
    userLocation,   \* the origin
    options,        \* the search options
    searchResult,   \* the completion of getNearestCentros(centros, userLocation, options)
    ranked,         \* the completion of rankByDistance(centros, userLocation, options)
    other,          \* the completion of a search of the same list with other options
    rankedAgain,    \* the completion of a later rankByDistance(centros, userLocation, options)
    call,           \* a call of one of the functions of domain/geo
    outcome         \* the completion of that call

VARIABLES
    centrosCache,   \* infrastructure/data/centrosData: the module's cache
    loads,          \* the loadCentros calls: where each one is and what it did
    loaded,         \* the collection the first successful loadCentros returned
    got             \* the last getCentros call: what it returned

VARIABLES
    state,          \* useNearestCentros: the hook's state object
    fetches,        \* the fetchNearest calls: where each one is
    clean           \* clearResults ran and no fetchNearest started after it has completed

VARIABLES
    marker,         \* UserMarkerManager: this.marker
    markerElement,  \* this.markerElement
    showAccuracy,   \* this.options.showAccuracy
    mapMarkers,     \* the markers added to the map
    mapSource,      \* the map's accuracy source
    mapLayer,       \* whether the map has the accuracy layer
    calls,          \* how many setPosition and remove calls were made
    lastCall        \* the last of them

VARIABLES
    coordinates,    \* useUserLocation: the three pieces of state
    status,
    accuracy,
    supported,      \* 'geolocation' in navigator
    mounted,        \* the mount effect has run
    pending,        \* getCurrentPosition requests whose callback has not run
    lastEvent       \* the last thing that happened to the hook

searchVars ==
    <<centros, userLocation, options, searchResult, ranked, other, rankedAgain>>

geoVars == <<call, outcome>>

cacheVars == <<centrosCache, loads, loaded, got>>

hookVars == <<state, fetches, clean>>

markerVars ==
    <<marker, markerElement, showAccuracy, mapMarkers, mapSource, mapLayer, calls, lastCall>>

locationVars == <<coordinates, status, accuracy, supported, mounted, pending, lastEvent>>

\* The state of the user interface and of the data service.
appVars == <<cacheVars, hookVars, markerVars, locationVars>>

vars == <<searchVars, geoVars, appVars>>

NotCalled == [completion |-> "none"]

\* No loadCentros call has started and the cache is unset.
CacheIdle ==
    /\ centrosCache = Null
    /\ loads = [c \in 1..MaxLoads |-> [pc |-> "idle"]]
    /\ loaded = Null
    /\ got = NotCalled

\* MapPanel.tsx: the state useNearestCentros starts from and clears to.
initialState ==
    [results |-> <<>>, isLoading |-> FALSE, geoError |-> Null, appError |-> Null]

\* The hook has just been mounted: no fetchNearest call was made.
HookIdle ==
    /\ state = initialState
    /\ fetches = [f \in 1..MaxFetches |-> [pc |-> "idle"]]
    /\ clean = FALSE

\* A UserMarkerManager as its constructor leaves it, on a map without a marker.
MarkerIdle ==
    /\ marker = Null
    /\ markerElement = Null
    /\ showAccuracy = TRUE
    /\ mapMarkers = {}
    /\ mapSource = Null
    /\ mapLayer = FALSE
    /\ calls = 0
    /\ lastCall = [fn |-> "none"]

\* useUserLocation before its first render's effect.
LocationIdle ==
    /\ coordinates = Null
    /\ status = "idle"
    /\ accuracy = Null
    /\ supported = TRUE
    /\ mounted = FALSE
    /\ pending = 0
    /\ lastEvent = [kind |-> "none"]

\* Nothing has happened outside the search and domain/geo.
AppIdle == CacheIdle /\ HookIdle /\ MarkerIdle /\ LocationIdle

\* No call of domain/geo is under way.
NoCall == [fn |-> "none"]

\* The options of the search made between two searches of the same arguments.
OtherOptionsChoices ==
    {Undefined, SearchOptions(Num(1), Undefined, Undefined, Undefined)}

Init ==
    /\ centros \in CentrosChoices
    /\ userLocation \in UserLocationChoices
    /\ options \in OptionsChoices
    /\ searchResult = NotCalled
    /\ ranked = NotCalled
    /\ other = NotCalled
    /\ rankedAgain = NotCalled
    /\ call = NoCall
    /\ outcome = NotCalled
    /\ AppIdle

GetNearestCentros ==
    /\ searchResult = NotCalled
    /\ searchResult' = getNearestCentros(centros, userLocation, options)
    /\ centros' = centrosAfterRanking(centros, userLocation, options)
    /\ UNCHANGED <<userLocation, options, ranked, other, rankedAgain, call, outcome, appVars>>

RankByDistance ==
    /\ ranked = NotCalled
    /\ ranked' = rankByDistance(centros, userLocation, options)
    /\ centros' = centrosAfterRanking(centros, userLocation, options)
    /\ UNCHANGED <<userLocation, options, searchResult, other, rankedAgain, call, outcome, appVars>>

\* Between two searches of the same arguments, a search with other options.
OtherSearch ==
    /\ ranked # NotCalled
    /\ searchResult # NotCalled
    /\ rankedAgain = NotCalled
    /\ other = NotCalled
    /\ \E otherOptions \in OtherOptionsChoices :
          /\ other' = rankByDistance(centros, userLocation, otherOptions)
          /\ centros' = centrosAfterRanking(centros, userLocation, otherOptions)
    /\ UNCHANGED <<userLocation, options, searchResult, ranked, rankedAgain, call, outcome, appVars>>

\* rankByDistance called once more with the arguments of the first call,
\* after both entry points have run.
RankByDistanceAgain ==
    /\ ranked # NotCalled
    /\ searchResult # NotCalled
    /\ rankedAgain = NotCalled
    /\ rankedAgain' = rankByDistance(centros, userLocation, options)
    /\ centros' = centrosAfterRanking(centros, userLocation, options)
    /\ UNCHANGED <<userLocation, options, searchResult, ranked, other, call, outcome, appVars>>

Next == GetNearestCentros \/ RankByDistance \/ OtherSearch \/ RankByDistanceAgain

Spec == Init /\ [][Next]_vars

(***************************************************************************)
(* The functions of domain/geo, each called on its own.                    *)
(***************************************************************************)
\* Latitudes: beyond, on and within the bounds, then NaN, a string, absent.
LatitudeChoices ==
    {Num(-91), Num(-90), Num(-23), Num(90), Num(91), NaN, Str("-23"), Undefined}

LongitudeChoices ==
    {Num(-181), Num(-180), Num(-46), Num(180), Num(181), NaN, Undefined}

\* What a caller may pass for a point: an object, null, or not an object.
ObjChoices ==
    {Coordinates(latitude, longitude) :
        latitude \in LatitudeChoices, longitude \in LongitudeChoices}
    \cup {Null, Str("-23,-46")}

\* Distances in metres: around each band edge of formatDistance, and ties.
DistanceKmChoices ==
    {Num(d) : d \in {-1, 0, 1, 499, 999, 1000, 1040, 1250, 5750, 9940, 9960, 9999,
                     10000, 10400, 10500, 150000, TieDistance}}
    \cup {NaN}

GeoCalls ==
    {[fn |-> "haversineDistance", point1 |-> point1, point2 |-> point2] :
        point1 \in ObjChoices, point2 \in ObjChoices}
    \cup {[fn |-> "isValidCoordinates", obj |-> obj] : obj \in ObjChoices}
    \cup {[fn |-> "createCoordinates", latitude |-> latitude, longitude |-> longitude] :
             latitude \in LatitudeChoices, longitude \in LongitudeChoices}
    \cup {[fn |-> "formatDistance", distanceKm |-> distanceKm] :
             distanceKm \in DistanceKmChoices}

GeoInit ==
    /\ call \in GeoCalls
    /\ outcome = NotCalled
    /\ centros = Arr(<<>>)
    /\ userLocation = AtCentroA
    /\ options = Undefined
    /\ searchResult = NotCalled
    /\ ranked = NotCalled
    /\ other = NotCalled
    /\ rankedAgain = NotCalled
    /\ AppIdle

HaversineDistance ==
    /\ call.fn = "haversineDistance"
    /\ outcome = NotCalled
    /\ outcome' = haversineDistance(call.point1, call.point2)
    /\ UNCHANGED <<centros, userLocation, options, searchResult, ranked, other,
                   rankedAgain, call, appVars>>

IsValidCoordinates ==
    /\ call.fn = "isValidCoordinates"
    /\ outcome = NotCalled
    /\ outcome' = Return(isValidCoordinates(call.obj))
    /\ UNCHANGED <<centros, userLocation, options, searchResult, ranked, other,
                   rankedAgain, call, appVars>>

CreateCoordinates ==
    /\ call.fn = "createCoordinates"
    /\ outcome = NotCalled
    /\ outcome' = createCoordinates(call.latitude, call.longitude)
    /\ UNCHANGED <<centros, userLocation, options, searchResult, ranked, other,
                   rankedAgain, call, appVars>>

FormatDistance ==
    /\ call.fn = "formatDistance"
    /\ outcome = NotCalled
    /\ outcome' = Return(formatDistance(call.distanceKm))
    /\ UNCHANGED <<centros, userLocation, options, searchResult, ranked, other,
                   rankedAgain, call, appVars>>

GeoNext == HaversineDistance \/ IsValidCoordinates \/ CreateCoordinates \/ FormatDistance

GeoSpec == GeoInit /\ [][GeoNext]_vars

(***************************************************************************)
(* infrastructure/data/centrosData: loadCentros and getCentros.  A         *)
(* loadCentros call is suspended twice, at the fetch and at                *)
(* response.json(), and other calls run in between.                        *)
(***************************************************************************)
\* No search and no call of domain/geo is under way.
SearchIdle ==
    /\ centros = Arr(<<>>)
    /\ userLocation = AtCentroA
    /\ options = Undefined
    /\ searchResult = NotCalled
    /\ ranked = NotCalled
    /\ other = NotCalled
    /\ rankedAgain = NotCalled
    /\ call = NoCall
    /\ outcome = NotCalled

\* How the fetch of /data/centros.json settles: rejected, or a response.
ResponseChoices == {"rejected", "not ok", "ok"}

\* What response.json() resolves to; it rejects with a SyntaxError otherwise.
DataChoices == {Arr(<<>>), Arr(<<CentroA>>), Arr(<<CentroA, CentroB>>), Null}

\* A loadCentros call that has completed.
Loaded(fetched, known, result) ==
    [pc |-> "done", fetched |-> fetched, known |-> known, result |-> result]

\* loadCentros up to its first suspension: the cached collection, or a fetch.
LoadCentros(c) ==
    /\ loads[c].pc = "idle"
    /\ c > 1 => loads[c - 1].pc # "idle"
    /\ IF ~Falsy(centrosCache)
       THEN loads' = [loads EXCEPT ![c] = Loaded(FALSE, loaded, Return(centrosCache))]
       ELSE loads' = [loads EXCEPT ![c] = [pc |-> "fetch", fetched |-> TRUE,
                                           known |-> loaded]]
    /\ UNCHANGED <<centrosCache, loaded, got>>
    /\ UNCHANGED <<searchVars, geoVars, hookVars, markerVars, locationVars>>

\* The fetch settles: a rejection or a response that is not ok is logged and
\* rethrown by the catch; otherwise the call awaits response.json().
FetchSettles(c) ==
    /\ loads[c].pc = "fetch"
    /\ \E response \in ResponseChoices :
          IF response = "rejected"
          THEN loads' = [loads EXCEPT ![c] =
                            Loaded(TRUE, loads[c].known, Throw("TypeError"))]
          ELSE IF response = "not ok"
          THEN loads' = [loads EXCEPT ![c] =
                            Loaded(TRUE, loads[c].known, Throw("Failed to load centros"))]
          ELSE loads' = [loads EXCEPT ![c].pc = "json"]
    /\ UNCHANGED <<centrosCache, loaded, got>>
    /\ UNCHANGED <<searchVars, geoVars, hookVars, markerVars, locationVars>>

\* response.json() settles: the data is assigned to the cache, its length is
\* logged (a TypeError for null, caught and rethrown) and it is returned.
JsonSettles(c) ==
    /\ loads[c].pc = "json"
    /\ \/ /\ loads' = [loads EXCEPT ![c] =
                           Loaded(TRUE, loads[c].known, Throw("SyntaxError"))]
          /\ UNCHANGED <<centrosCache, loaded>>
       \/ \E data \in DataChoices :
             /\ centrosCache' = data
             /\ IF data = Null
                THEN /\ loads' = [loads EXCEPT ![c] =
                                     Loaded(TRUE, loads[c].known, Throw("TypeError"))]
                     /\ UNCHANGED loaded
                ELSE /\ loads' = [loads EXCEPT ![c] =
                                     Loaded(TRUE, loads[c].known, Return(data))]
                     /\ loaded' = IF loaded = Null THEN data ELSE loaded
    /\ UNCHANGED got
    /\ UNCHANGED <<searchVars, geoVars, hookVars, markerVars, locationVars>>

\* getCentros: the cache, or an empty list when it is unset.
GetCentros ==
    /\ got' = [known |-> loaded,
               result |-> Return(IF Falsy(centrosCache) THEN Arr(<<>>) ELSE centrosCache)]
    /\ UNCHANGED <<centrosCache, loads, loaded>>
    /\ UNCHANGED <<searchVars, geoVars, hookVars, markerVars, locationVars>>

CacheInit == SearchIdle /\ AppIdle

CacheNext ==
    \/ \E c \in 1..MaxLoads : LoadCentros(c) \/ FetchSettles(c) \/ JsonSettles(c)
    \/ GetCentros

CacheSpec == CacheInit /\ [][CacheNext]_vars

(***************************************************************************)
(* Vocabulary of the properties.                                           *)
(***************************************************************************)
\* The options a search reads: an absent options object has no key.
OptionsRead ==
    IF options = Undefined
    THEN SearchOptions(Undefined, Undefined, Undefined, Undefined)
    ELSE options

\* The limit in force: 5 when limit or the whole options object is absent.
LimitInForce ==
    IF OptionsRead.limit = Undefined THEN 5 ELSE OptionsRead.limit.v

\* getNearestCentros returned a success.
Succeeded ==
    /\ searchResult.completion = "return"
    /\ searchResult.value.success

\* getNearestCentros returned the failure whose message is error.
Failed(error) == searchResult = Return(Failure(error))

\* The result lists of the successful searches of this state.
ResultLists ==
    (IF Succeeded THEN {searchResult.value.results} ELSE {})
    \cup (IF ranked.completion = "return" THEN {ranked.value} ELSE {})

\* The facilities of the collection, by position.
Positions == 1..Len(centros.items)

DistanceTo(centro) ==
    haversineDistance(userLocation,
                      Coordinates(centro.latitude, centro.longitude)).value

HasTag(centro, tag) ==
    \E i \in 1..Len(centro.tiposSoro.items) : centro.tiposSoro.items[i] = tag

\* centro is the facility of one of the results.
Returned(results, centro) == \E k \in 1..Len(results) : results[k].centro = centro

\* A filter is supplied when its key is present; it binds when it is also
\* not the empty string.
Supplied(filter) == filter # Undefined

Binding(filter) == filter # Undefined /\ filter # Str("")

WithinRadius(centro) ==
    Supplied(OptionsRead.maxRadiusKm) =>
        DistanceTo(centro) <= OptionsRead.maxRadiusKm.v

\* centro passes every supplied filter.
PassesSupplied(centro) ==
    /\ Supplied(OptionsRead.uf) => centro.uf = OptionsRead.uf
    /\ Supplied(OptionsRead.tipoSoro) => HasTag(centro, OptionsRead.tipoSoro)
    /\ WithinRadius(centro)

\* centro passes every filter that binds.
PassesBinding(centro) ==
    /\ Binding(OptionsRead.uf) => centro.uf = OptionsRead.uf
    /\ Binding(OptionsRead.tipoSoro) => HasTag(centro, OptionsRead.tipoSoro)
    /\ WithinRadius(centro)

Min(a, b) == IF a < b THEN a ELSE b

(***************************************************************************)
(* C1: claimed -- a successful search with a positive limit returns        *)
(* min(limit, number of facilities passing every supplied filter) results. *)
(* An empty-string uf or tipoSoro is supplied and yet filters nothing, so  *)
(* the count that holds is of the facilities passing every filter that is  *)
(* not the empty string.                                                   *)
(***************************************************************************)
C1_CountOfSuppliedFilters ==
    \A results \in ResultLists :
        LimitInForce > 0 =>
            Len(results) =
                Min(LimitInForce,
                    Cardinality({i \in Positions : PassesSupplied(centros.items[i])}))

\* C1, amended: a successful search with a positive limit returns
\* min(limit, number of facilities passing every non-empty supplied filter).
C1_CountOfBindingFilters ==
    \A results \in ResultLists :
        LimitInForce > 0 =>
            Len(results) =
                Min(LimitInForce,
                    Cardinality({i \in Positions : PassesBinding(centros.items[i])}))

\* Two facilities pass the uf filter and the limit of 1 keeps one of them.
C1_Witness ==
    /\ Succeeded
    /\ OptionsRead.limit = Num(1)
    /\ OptionsRead.uf = Str("SP")
    /\ Cardinality({i \in Positions : PassesBinding(centros.items[i])}) = 2
    /\ Len(searchResult.value.results) = 1

(***************************************************************************)
(* C2: the results are the nearest ones -- no facility that passes the     *)
(* filters and is strictly nearer than some returned result is missing     *)
(* from the results.  A facility that passes every supplied filter passes  *)
(* every filter that binds, so the property is stated for the latter.      *)
(***************************************************************************)
C2_NearestReturned ==
    \A results \in ResultLists :
        \A i \in Positions :
            /\ PassesBinding(centros.items[i])
            /\ \E k \in 1..Len(results) :
                    DistanceTo(centros.items[i]) < results[k].distanceKm
            => Returned(results, centros.items[i])

\* The limit cut a passing facility off, and the one returned came later in
\* the input than the one cut off.
C2_Witness ==
    /\ Succeeded
    /\ Len(searchResult.value.results) = 1
    /\ \E i, j \in Positions :
          /\ i < j
          /\ PassesBinding(centros.items[i])
          /\ ~Returned(searchResult.value.results, centros.items[i])
          /\ Returned(searchResult.value.results, centros.items[j])
          /\ DistanceTo(centros.items[j]) < DistanceTo(centros.items[i])

(***************************************************************************)
(* C3: in every result list the distances are non-decreasing.              *)
(***************************************************************************)
C3_NonDecreasing ==
    \A results \in ResultLists :
        \A i \in 1..(Len(results) - 1) :
            results[i].distanceKm <= results[i + 1].distanceKm

\* rankByDistance returned three results of which the farthest came first
\* in the input.
C3_Witness ==
    /\ ranked.completion = "return"
    /\ Len(ranked.value) = 3
    /\ ranked.value[3].centro = centros.items[1]
    /\ ranked.value[1].distanceKm < ranked.value[3].distanceKm

(***************************************************************************)
(* C4: with maxRadiusKm supplied every result is within the radius, and a  *)
(* facility exactly at the radius that passes the other filters is         *)
(* returned unless a positive limit is already filled.                     *)
(***************************************************************************)
C4_RadiusInclusive ==
    \A results \in ResultLists :
        Supplied(OptionsRead.maxRadiusKm) =>
            /\ \A k \in 1..Len(results) :
                  results[k].distanceKm <= OptionsRead.maxRadiusKm.v
            /\ \A i \in Positions :
                  /\ DistanceTo(centros.items[i]) = OptionsRead.maxRadiusKm.v
                  /\ PassesBinding(centros.items[i])
                  /\ LimitInForce > 0
                  => \/ Returned(results, centros.items[i])
                     \/ Len(results) = LimitInForce

\* A facility at a positive distance equal to the radius is returned.
C4_Witness ==
    /\ Succeeded
    /\ Supplied(OptionsRead.maxRadiusKm)
    /\ \E k \in 1..Len(searchResult.value.results) :
          /\ searchResult.value.results[k].distanceKm = OptionsRead.maxRadiusKm.v
          /\ searchResult.value.results[k].distanceKm > 0

(***************************************************************************)
(* C5: claimed -- with a tipoSoro filter supplied a facility is kept if    *)
(* and only if its tag list holds the filter value as a whole string.      *)
(* For the empty string the filter keeps every facility; for every other   *)
(* value the claim holds.                                                  *)
(***************************************************************************)
\* Not dropped by the filter in question: returned, unless another filter or
\* the limit leaves it out.
KeptByFilter(results, centro) ==
    \/ Returned(results, centro)
    \/ ~PassesBinding(centro)
    \/ LimitInForce <= 0
    \/ Len(results) = LimitInForce

C5_SuppliedTipoSoroExact ==
    \A results \in ResultLists :
        Supplied(OptionsRead.tipoSoro) =>
            /\ \A k \in 1..Len(results) :
                  HasTag(results[k].centro, OptionsRead.tipoSoro)
            /\ \A i \in Positions :
                  HasTag(centros.items[i], OptionsRead.tipoSoro)
                  => KeptByFilter(results, centros.items[i])

\* C5, amended: with a non-empty tipoSoro filter a facility is kept if and
\* only if its tag list holds the filter value as a whole string.
C5_NonEmptyTipoSoroExact ==
    \A results \in ResultLists :
        Binding(OptionsRead.tipoSoro) =>
            /\ \A k \in 1..Len(results) :
                  HasTag(results[k].centro, OptionsRead.tipoSoro)
            /\ \A i \in Positions :
                  HasTag(centros.items[i], OptionsRead.tipoSoro)
                  => KeptByFilter(results, centros.items[i])

\* "Antibotropico" keeps A and C (its second tag) and drops B, whose only
\* tag contains the filter value.
C5_Witness ==
    /\ ranked.completion = "return"
    /\ OptionsRead.tipoSoro = Str("Antibotropico")
    /\ \E i \in Positions : centros.items[i] = CentroB
    /\ Returned(ranked.value, CentroA)
    /\ Returned(ranked.value, CentroC)
    /\ ~Returned(ranked.value, CentroB)

(***************************************************************************)
(* C6: claimed -- with a uf filter supplied every result has exactly that  *)
(* uf and no facility with that uf is dropped by the filter.  For the      *)
(* empty string the filter keeps every facility; for every other value     *)
(* the claim holds.                                                        *)
(***************************************************************************)
C6_SuppliedUfExact ==
    \A results \in ResultLists :
        Supplied(OptionsRead.uf) =>
            /\ \A k \in 1..Len(results) : results[k].centro.uf = OptionsRead.uf
            /\ \A i \in Positions :
                  centros.items[i].uf = OptionsRead.uf
                  => KeptByFilter(results, centros.items[i])

\* C6, amended: with a non-empty uf filter every result has exactly that uf
\* and no facility with that uf is dropped by the filter.
C6_NonEmptyUfExact ==
    \A results \in ResultLists :
        Binding(OptionsRead.uf) =>
            /\ \A k \in 1..Len(results) : results[k].centro.uf = OptionsRead.uf
            /\ \A i \in Positions :
                  centros.items[i].uf = OptionsRead.uf
                  => KeptByFilter(results, centros.items[i])

\* "sp" returns nothing from a collection that holds an "SP" facility.
C6_Witness ==
    /\ Succeeded
    /\ OptionsRead.uf = Str("sp")
    /\ \E i \in Positions : centros.items[i].uf = Str("SP")
    /\ searchResult.value.results = <<>>

(***************************************************************************)
(* C7: getNearestCentros with an origin that fails validation returns the  *)
(* InvalidLocation failure for every list, the empty one included, and     *)
(* every options value.                                                    *)
(***************************************************************************)
C7_InvalidLocationFirst ==
    /\ searchResult # NotCalled
    /\ centros.type = "array"
    /\ userLocation \notin {AtCentroA, NearCentroB}
    => Failed(InvalidLocation)

\* An invalid origin, an empty list and null options give InvalidLocation.
C7_Witness ==
    /\ Failed(InvalidLocation)
    /\ userLocation = Coordinates(Num(200), Num(0))
    /\ centros = Arr(<<>>)
    /\ options = Null

(***************************************************************************)
(* C8: getNearestCentros with a valid origin and an empty list returns the *)
(* NoData failure, which is neither of the other failures nor a success    *)
(* with no results.                                                        *)
(***************************************************************************)
C8_EmptyListIsNoData ==
    /\ searchResult # NotCalled
    /\ centros = Arr(<<>>)
    /\ userLocation \in {AtCentroA, NearCentroB}
    => /\ Failed(NoData)
       /\ ~Failed(InvalidLocation)
       /\ ~Failed(ComputationError)
       /\ searchResult # Return(Success(<<>>))

\* The empty list gave NoData where rankByDistance itself returns no results.
C8_Witness ==
    /\ Failed(NoData)
    /\ centros = Arr(<<>>)
    /\ ranked = Return(<<>>)

(***************************************************************************)
(* C9: claimed -- getNearestCentros with a valid origin and an absent      *)
(* collection (null or undefined) returns the NoData failure as a value.   *)
(* The code reads centros.length for its first log entry before it         *)
(* validates anything, which throws.                                       *)
(***************************************************************************)
C9_AbsentListIsNoData ==
    /\ searchResult # NotCalled
    /\ centros \in {Null, Undefined}
    /\ userLocation \in {AtCentroA, NearCentroB}
    => Failed(NoData)

(***************************************************************************)
(* C10: a fault raised while ranking is returned by getNearestCentros as   *)
(* the ComputationError failure, never thrown to the caller.               *)
(***************************************************************************)
C10_RankingFaultCaught ==
    /\ searchResult # NotCalled
    /\ centros.type = "array"
    /\ Len(centros.items) > 0
    /\ userLocation \in {AtCentroA, NearCentroB}
    /\ ranked.completion = "throw"
    => Failed(ComputationError)

\* A facility with an invalid latitude made haversineDistance throw.
C10_Witness ==
    /\ Failed(ComputationError)
    /\ options # Null
    /\ ranked = Throw("Invalid destination coordinates")

(***************************************************************************)
(* C11: a search of a non-empty collection from a valid origin in which    *)
(* no facility passes the filters returns a success with an empty result   *)
(* list, not a failure.  The facilities have coordinates the distance      *)
(* function accepts and the options are an object or absent; the filters   *)
(* are those that bind.                                                    *)
(***************************************************************************)
\* Every facility of the collection has valid coordinates.
AllMeasurable ==
    \A i \in Positions :
        isValidCoordinates(Coordinates(centros.items[i].latitude,
                                       centros.items[i].longitude))

C12_ExactlyOneVariant ==
    searchResult.completion = "return" =>
        \/ /\ searchResult.value.success
           /\ DOMAIN searchResult.value = {"success", "results"}
        \/ /\ ~searchResult.value.success
           /\ DOMAIN searchResult.value = {"success", "error"}
           /\ searchResult.value.error \in {InvalidLocation, NoData, ComputationError}

\* A failure returned for an options value of null.
C12_Witness ==
    /\ searchResult.completion = "return"
    /\ ~searchResult.value.success
    /\ DOMAIN searchResult.value = {"success", "error"}
    /\ options = Null

(***************************************************************************)
(* C13: claimed -- for every limit <= 0, rankByDistance returns an empty   *)
(* result list.  slice(0, limit) with a negative limit counts from the     *)
(* back of the list, so a limit of -1 drops the farthest result only.      *)
(***************************************************************************)
C13_NonPositiveLimitIsEmpty ==
    /\ ranked.completion = "return"
    /\ LimitInForce <= 0
    => ranked.value = <<>>

Called(fn) == call.fn = fn /\ outcome # NotCalled

\* The points both of whose coordinates are numbers within the closed bounds.
PointsInRange ==
    {Coordinates(Num(latitude), Num(longitude)) :
        latitude \in -90..90, longitude \in -180..180}

(***************************************************************************)
(* C16: haversineDistance(p, p) returns exactly 0 for every valid p.       *)
(***************************************************************************)
C16_IdenticalPointsAreZero ==
    /\ Called("haversineDistance")
    /\ call.point1 = call.point2
    /\ isValidCoordinates(call.point1)
    => outcome = Return(0)

\* The distance from a pole on the antimeridian to itself.
C16_Witness ==
    /\ Called("haversineDistance")
    /\ call.point1 = Coordinates(Num(90), Num(-180))
    /\ call.point2 = call.point1
    /\ outcome = Return(0)

(***************************************************************************)
(* C17: haversineDistance throws whenever one of its arguments fails       *)
(* validation, two identical invalid points included: validation comes     *)
(* before the shortcut for identical points.                               *)
(***************************************************************************)
C17_InvalidPointThrows ==
    /\ Called("haversineDistance")
    /\ ~isValidCoordinates(call.point1) \/ ~isValidCoordinates(call.point2)
    => outcome.completion = "throw"

\* Two identical points with a latitude of 91 degrees.
C17_Witness ==
    /\ Called("haversineDistance")
    /\ call.point1 = Coordinates(Num(91), Num(-46))
    /\ call.point2 = call.point1
    /\ outcome = Throw("Invalid origin coordinates")

(***************************************************************************)
(* C18: isValidCoordinates returns true if and only if latitude and        *)
(* longitude are both numbers, neither is NaN, -90 <= latitude <= 90 and   *)
(* -180 <= longitude <= 180: the bounds are closed.                        *)
(***************************************************************************)
C18_ValidIffInRange ==
    Called("isValidCoordinates") =>
        outcome = Return(call.obj \in PointsInRange)

\* A pole on the antimeridian is accepted.
C18_Witness ==
    /\ Called("isValidCoordinates")
    /\ call.obj = Coordinates(Num(-90), Num(180))
    /\ outcome = Return(TRUE)

(***************************************************************************)
(* C19: createCoordinates throws exactly when isValidCoordinates rejects   *)
(* the pair, and otherwise returns the given latitude and longitude        *)
(* unchanged.                                                              *)
(***************************************************************************)
C19_CreateOrThrow ==
    Called("createCoordinates") =>
        IF Coordinates(call.latitude, call.longitude) \in PointsInRange
        THEN outcome = Return(Coordinates(call.latitude, call.longitude))
        ELSE outcome.completion = "throw"

\* A latitude of 91 degrees is refused, not brought back to 90.
C19_Witness ==
    /\ Called("createCoordinates")
    /\ call.latitude = Num(91)
    /\ call.longitude = Num(180)
    /\ outcome.completion = "throw"

(***************************************************************************)
(* C20: formatDistance picks its band from the unrounded distance d (km):  *)
(* d < 0 is "0 m"; 0 <= d < 1 is the nearest whole number of metres and    *)
(* " m"; 1 <= d < 10 is the nearest tenth with one decimal place and       *)
(* " km"; d >= 10 is the nearest whole number and " km"; and it returns    *)
(* for every number.                                                       *)
(***************************************************************************)
\* n is a nearest multiple of unit to a distance of metres.
Nearest(n, unit, metres) == 2 * Abs(metres - n * unit) <= unit

C20_BandFromUnroundedInput ==
    Called("formatDistance") =>
        /\ outcome.completion = "return"
        /\ ~call.distanceKm.nan =>
              LET d == call.distanceKm.v
              IN  /\ d < 0 => outcome.value = "0 m"
                  /\ 0 <= d /\ d < KmUnit =>
                        outcome.value = ToString(d) \o " m"
                  /\ KmUnit <= d /\ d < 10 * KmUnit =>
                        \E tenths \in 10..100 :
                            /\ Nearest(tenths, KmUnit \div 10, d)
                            /\ outcome.value =
                                  ToString(tenths \div 10) \o "."
                                  \o ToString(tenths % 10) \o " km"
                  /\ d >= 10 * KmUnit =>
                        \E km \in 10..(d \div KmUnit + 1) :
                            /\ Nearest(km, KmUnit, d)
                            /\ outcome.value = ToString(km) \o " km"

\* 9.96 km is below 10 km and keeps its decimal place.
C20_Witness ==
    /\ Called("formatDistance")
    /\ call.distanceKm = Num(9960)
    /\ outcome = Return("10.0 km")

(***************************************************************************)
(* C21: a facility at the origin that passes the filters is returned with  *)
(* distanceKm 0 and the label "0 m"; it is the first result of a search    *)
(* with a positive limit, and with limit 1 the only one.  (No two          *)
(* facilities of the model share their coordinates.)                       *)
(***************************************************************************)
\* The facility is at the origin of the search.
AtOrigin(centro) == userLocation = Coordinates(centro.latitude, centro.longitude)

C21_FacilityAtOriginFirst ==
    \A results \in ResultLists :
        \A i \in Positions :
            /\ AtOrigin(centros.items[i])
            /\ PassesBinding(centros.items[i])
            /\ LimitInForce >= 1
            => /\ Len(results) >= 1
               /\ results[1] = [centro |-> centros.items[i], distanceKm |-> 0,
                                distanceFormatted |-> "0 m"]
               /\ LimitInForce = 1 => Len(results) = 1

\* The scenario of two facilities A and B, the origin at A and limit 1.
C21_Witness ==
    /\ centros = Arr(<<CentroB, CentroA>>)
    /\ userLocation = AtCentroA
    /\ options = SearchOptions(Num(1), Undefined, Undefined, Undefined)
    /\ searchResult = Return(Success(<<[centro |-> CentroA, distanceKm |-> 0,
                                        distanceFormatted |-> "0 m"]>>))

(***************************************************************************)
(* C25: distances are computed for every facility before any filter is     *)
(* applied -- when a facility of the collection has coordinates that fail  *)
(* validation, getNearestCentros from a valid origin returns the           *)
(* ComputationError failure for every choice of filters and limit, even    *)
(* when a filter would have excluded that facility.                        *)
(***************************************************************************)
C25_InvalidFacilityFailsSearch ==
    /\ searchResult # NotCalled
    /\ centros.type = "array"
    /\ isValidCoordinates(userLocation)
    /\ ~AllMeasurable
    => Failed(ComputationError)

\* The facility with the invalid latitude is in MG, the uf filter asks for
\* SP, and the limit is 0.
C25_Witness ==
    /\ Failed(ComputationError)
    /\ options # Null
    /\ options # Undefined
    /\ options.uf = Str("SP")
    /\ options.limit = Num(0)
    /\ centros = Arr(<<CentroA, CentroX>>)

(***************************************************************************)
(* C26: ties are broken by input order -- two results of exactly equal     *)
(* distanceKm appear in the order their facilities have in the input       *)
(* list, so when the limit cuts between them the earlier one is kept.      *)
(***************************************************************************)
\* The position of a facility of the collection.
PositionOf(centro) == CHOOSE i \in Positions : centros.items[i] = centro

C26_TiesInInputOrder ==
    \A results \in ResultLists :
        /\ \A k, l \in 1..Len(results) :
              k < l /\ results[k].distanceKm = results[l].distanceKm
              => PositionOf(results[k].centro) < PositionOf(results[l].centro)
        /\ \A i, j \in Positions :
              /\ i < j
              /\ PassesBinding(centros.items[i])
              /\ PassesBinding(centros.items[j])
              /\ DistanceTo(centros.items[i]) = DistanceTo(centros.items[j])
              /\ Returned(results, centros.items[j])
              /\ LimitInForce >= 0
              => Returned(results, centros.items[i])

\* C comes before B in the input, both are as far from the origin, and the
\* limit of 2 keeps the nearer A and C.
C26_Witness ==
    /\ centros = Arr(<<CentroC, CentroB, CentroA>>)
    /\ userLocation = AtCentroA
    /\ ranked.completion = "return"
    /\ Len(ranked.value) = 2
    /\ ranked.value[1].centro = CentroA
    /\ ranked.value[2].centro = CentroC
    /\ DistanceTo(CentroB) = DistanceTo(CentroC)

(***************************************************************************)
(* C27: a uf or tipoSoro given as the empty string imposes no constraint   *)
(* -- the search returns what it returns with that option absent -- while  *)
(* maxRadiusKm is absent only when it is undefined: a radius of 0 filters. *)
(***************************************************************************)
\* The options with every empty-string uf and tipoSoro taken out.
WithoutEmptyStrings(opts) ==
    SearchOptions(opts.limit, opts.maxRadiusKm,
                  IF opts.tipoSoro = Str("") THEN Undefined ELSE opts.tipoSoro,
                  IF opts.uf = Str("") THEN Undefined ELSE opts.uf)

C27_EmptyStringIsAbsent ==
    /\ ranked # NotCalled /\ options # Null
       => ranked = rankByDistance(centros, userLocation, WithoutEmptyStrings(OptionsRead))
    /\ ranked.completion = "return" /\ OptionsRead.maxRadiusKm # Undefined
       => \A k \in 1..Len(ranked.value) :
              ranked.value[k].distanceKm <= OptionsRead.maxRadiusKm.v

\* Both strings are empty and a facility of SP is returned; the search with
\* no options at all returned the same.
C27_Witness ==
    /\ options = SearchOptions(Undefined, Undefined, Str(""), Str(""))
    /\ ranked.completion = "return"
    /\ Len(ranked.value) = MaxCentros
    /\ ranked.value[1].centro.uf = Str("SP")
    /\ other = ranked

(***************************************************************************)
(* ui/components/MapPanel: the useNearestCentros hook.  fetchNearest is    *)
(* suspended once, at GeolocationAdapter.getCurrentPosition(), which       *)
(* always resolves; the hook's centros argument is the variable centros.   *)
(* Nothing cancels a call, so calls overlap each other and clearResults.   *)
(***************************************************************************)
\* The facility lists the hook is mounted with.
HookCentrosChoices ==
    {Arr(<<>>), Arr(<<CentroA, CentroB>>), Arr(<<CentroB, CentroX>>)}

\* The options fetchNearest is called with.
HookOptionsChoices ==
    {Undefined, SearchOptions(Num(1), Undefined, Undefined, Undefined)}

\* What GeolocationAdapter.getCurrentPosition() resolves to.
GeoResultChoices ==
    {[success |-> TRUE, coordinates |-> AtCentroA],
     [success |-> TRUE, coordinates |-> NearCentroB],
     [success |-> FALSE, error |-> [code |-> "PERMISSION_DENIED"]],
     [success |-> FALSE, error |-> [code |-> "TIMEOUT"]]}

\* The positions a successful geolocation request yields.
HookPositions == {r.coordinates : r \in {g \in GeoResultChoices : g.success}}

\* getNearestCentros for every list, position and options of the hook.
HookSearchTable ==
    [list \in HookCentrosChoices, position \in HookPositions, opts \in HookOptionsChoices |->
        getNearestCentros(list, position, opts)]

\* fetchNearest's first setState: the functional update that starts loading.
startLoading(prev) ==
    [prev EXCEPT !.isLoading = TRUE, !.geoError = Null, !.appError = Null]

\* A geolocation failure that leaves the results of the previous state in place.
geoFailed_KeepResults(error) ==
    [state EXCEPT !.isLoading = FALSE, !.geoError = error]

\* The state set when geolocation failed.
geoFailed(error) ==
    [results |-> <<>>, isLoading |-> FALSE, geoError |-> error, appError |-> Null]

\* The state set when the search failed; the error is the message, a string.
searchFailed(error) ==
    [results |-> <<>>, isLoading |-> FALSE, geoError |-> Null, appError |-> Str(error)]

\* The state set when the search succeeded.
searchSucceeded(results) ==
    [results |-> results, isLoading |-> FALSE, geoError |-> Null, appError |-> Null]

\* The state a fetchNearest call sets after its search; it sets none when
\* getNearestCentros throws and the promise rejects.
afterSearch(search) ==
    IF search.completion = "throw"
    THEN state
    ELSE IF ~search.value.success
    THEN searchFailed(search.value.error)
    ELSE searchSucceeded(search.value.results)

\* The state a fetchNearest call sets once its geolocation request resolved.
afterGeolocation(geoResult, opts) ==
    IF ~geoResult.success
    THEN geoFailed(geoResult.error)
    ELSE afterSearch(HookSearchTable[centros, geoResult.coordinates, opts])

\* fetchNearest up to its await: loading starts, the errors are cleared.
FetchNearest(f) ==
    /\ fetches[f].pc = "idle"
    /\ f > 1 => fetches[f - 1].pc # "idle"
    /\ \E opts \in HookOptionsChoices :
          fetches' = [fetches EXCEPT ![f] =
                         [pc |-> "locating", options |-> opts, afterClear |-> TRUE]]
    /\ state' = startLoading(state)
    /\ UNCHANGED clean
    /\ UNCHANGED <<searchVars, geoVars, cacheVars, markerVars, locationVars>>

\* The geolocation request of call f resolves and the call runs to its end.
GeolocationSettles(f) ==
    /\ fetches[f].pc = "locating"
    /\ \E geoResult \in GeoResultChoices :
          /\ state' = afterGeolocation(geoResult, fetches[f].options)
          /\ fetches' = [fetches EXCEPT ![f] =
                            [pc |-> "done", options |-> fetches[f].options,
                             afterClear |-> fetches[f].afterClear,
                             shown |-> state']]
    /\ clean' = IF fetches[f].afterClear THEN FALSE ELSE clean
    /\ UNCHANGED <<searchVars, geoVars, cacheVars, markerVars, locationVars>>

\* clearResults: back to the initial state; the calls in flight go on.
ClearResults ==
    /\ state' = initialState
    /\ fetches' = [f \in 1..MaxFetches |->
                      IF fetches[f].pc = "locating"
                      THEN [fetches[f] EXCEPT !.afterClear = FALSE]
                      ELSE fetches[f]]
    /\ clean' = TRUE
    /\ UNCHANGED <<searchVars, geoVars, cacheVars, markerVars, locationVars>>

HookInit ==
    /\ centros \in HookCentrosChoices
    /\ userLocation = AtCentroA
    /\ options = Undefined
    /\ searchResult = NotCalled
    /\ ranked = NotCalled
    /\ other = NotCalled
    /\ rankedAgain = NotCalled
    /\ call = NoCall
    /\ outcome = NotCalled
    /\ AppIdle

HookNext ==
    \/ \E f \in 1..MaxFetches : FetchNearest(f) \/ GeolocationSettles(f)
    \/ ClearResults

HookSpec == HookInit /\ [][HookNext]_vars

(***************************************************************************)
(* infrastructure/mapbox/UserMarkerManager on a map whose style is loaded, *)
(* called with valid coordinates.  A marker is named by the number of the  *)
(* call that created it.                                                   *)
(***************************************************************************)
\* The coordinates setPosition is called with.
MarkerPositions == {AtCentroA, NearCentroB}

\* The accuracyMeters setPosition is called with.
AccuracyChoices == {Undefined, Num(10), Num(50)}

\* A setPosition that creates a marker whether or not one exists.
hasNoMarker_Always(current) == TRUE

\* setPosition's test `!this.marker`.
hasNoMarker(current) == Falsy(current)

\* updateAccuracyCircle: setData on the source, or a new source and layer.
UpdateAccuracyCircle(center, radiusMeters) ==
    /\ mapSource' = [center |-> center, radius |-> radiusMeters]
    /\ mapLayer' = IF mapSource # Null THEN mapLayer ELSE TRUE

\* setPosition: create the marker or move it, then the accuracy circle.
SetPosition ==
    /\ calls < MaxCalls
    /\ \E point \in MarkerPositions, accuracyMeters \in AccuracyChoices :
          LET lngLat == <<point.longitude, point.latitude>>
          IN  /\ IF hasNoMarker(marker)
                 THEN /\ markerElement' = [type |-> "object", id |-> calls + 1]
                      /\ marker' = [type |-> "object", id |-> calls + 1,
                                    lngLat |-> lngLat]
                      /\ mapMarkers' = mapMarkers \cup {calls + 1}
                 ELSE /\ marker' = [marker EXCEPT !.lngLat = lngLat]
                      /\ UNCHANGED <<markerElement, mapMarkers>>
              /\ IF showAccuracy /\ accuracyMeters # Undefined
                 THEN UpdateAccuracyCircle(point, accuracyMeters)
                 ELSE UNCHANGED <<mapSource, mapLayer>>
    /\ calls' = calls + 1
    /\ lastCall' = [fn |-> "setPosition", hadMarker |-> marker # Null]
    /\ UNCHANGED showAccuracy
    /\ UNCHANGED <<searchVars, geoVars, cacheVars, hookVars, locationVars>>

\* remove: the marker, its element, then the accuracy layer and source.
Remove ==
    /\ calls < MaxCalls
    /\ mapMarkers' = IF marker # Null THEN mapMarkers \ {marker.id} ELSE mapMarkers
    /\ marker' = Null
    /\ markerElement' = Null
    /\ mapLayer' = FALSE
    /\ mapSource' = Null
    /\ calls' = calls + 1
    /\ lastCall' = [fn |-> "remove", hadMarker |-> marker # Null]
    /\ UNCHANGED showAccuracy
    /\ UNCHANGED <<searchVars, geoVars, cacheVars, hookVars, locationVars>>

\* The constructor: the options are merged over DEFAULT_OPTIONS.
MarkerInit ==
    /\ SearchIdle
    /\ CacheIdle
    /\ HookIdle
    /\ LocationIdle
    /\ marker = Null
    /\ markerElement = Null
    /\ showAccuracy \in BOOLEAN
    /\ mapMarkers = {}
    /\ mapSource = Null
    /\ mapLayer = FALSE
    /\ calls = 0
    /\ lastCall = [fn |-> "none"]

MarkerNext == SetPosition \/ Remove

MarkerSpec == MarkerInit /\ [][MarkerNext]_vars

(***************************************************************************)
(* The useUserLocation hook.  The setState calls of one callback are       *)
(* applied together, in one render: the application is mounted with        *)
(* createRoot, which batches them.  A state of the model is a render.      *)
(***************************************************************************)
\* error.code of a GeolocationPositionError: its three codes and another.
ErrorCodeChoices == {0, 1, 2, 3}

\* position.coords of a success callback.
PositionChoices ==
    {[coords |-> AtCentroA, accuracy |-> Num(10)],
     [coords |-> NearCentroB, accuracy |-> Num(50)]}

\* PERMISSION_DENIED, POSITION_UNAVAILABLE and TIMEOUT are 1, 2 and 3.
statusMap == (1 :> "denied") @@ (2 :> "unavailable") @@ (3 :> "timeout")

\* An error callback without the fallback: statusMap[error.code] as it is.
newStatus_NoFallback(code) ==
    IF code \in DOMAIN statusMap THEN statusMap[code] ELSE "undefined"

\* statusMap[error.code] || 'unavailable'
newStatus(code) ==
    IF code \in DOMAIN statusMap THEN statusMap[code] ELSE "unavailable"

\* status === 'success' && coordinates !== null
hasLocation == status = "success" /\ coordinates # Null

\* ['denied', 'unavailable', 'timeout', 'unsupported'].includes(status)
hasError == status \in {"denied", "unavailable", "timeout", "unsupported"}

\* The effect of the first render: the browser support check.
MountEffect ==
    /\ ~mounted
    /\ mounted' = TRUE
    /\ status' = IF ~supported THEN "unsupported" ELSE status
    /\ lastEvent' = [kind |-> "mount"]
    /\ UNCHANGED <<coordinates, accuracy, supported, pending>>
    /\ UNCHANGED <<searchVars, geoVars, cacheVars, hookVars, markerVars>>

\* requestLocation: 'unsupported', or 'loading' and a getCurrentPosition request.
RequestLocation ==
    /\ supported => pending < MaxPending
    /\ IF ~supported
       THEN status' = "unsupported" /\ UNCHANGED pending
       ELSE status' = "loading" /\ pending' = pending + 1
    /\ lastEvent' = [kind |-> "request"]
    /\ UNCHANGED <<coordinates, accuracy, supported, mounted>>
    /\ UNCHANGED <<searchVars, geoVars, cacheVars, hookVars, markerVars>>

\* The success callback of a pending request.
SuccessCallback ==
    /\ pending > 0
    /\ \E position \in PositionChoices :
          /\ coordinates' = position.coords
          /\ accuracy' = position.accuracy
    /\ status' = "success"
    /\ pending' = pending - 1
    /\ lastEvent' = [kind |-> "success"]
    /\ UNCHANGED <<supported, mounted>>
    /\ UNCHANGED <<searchVars, geoVars, cacheVars, hookVars, markerVars>>

\* The error callback of a pending request.
ErrorCallback ==
    /\ pending > 0
    /\ \E code \in ErrorCodeChoices :
          /\ status' = newStatus(code)
          /\ lastEvent' = [kind |-> "error", code |-> code, had |-> coordinates # Null]
    /\ coordinates' = Null
    /\ accuracy' = Null
    /\ pending' = pending - 1
    /\ UNCHANGED <<supported, mounted>>
    /\ UNCHANGED <<searchVars, geoVars, cacheVars, hookVars, markerVars>>

\* clearLocation: back to 'idle' without a location.
ClearLocation ==
    /\ coordinates' = Null
    /\ accuracy' = Null
    /\ status' = "idle"
    /\ lastEvent' = [kind |-> "clear"]
    /\ UNCHANGED <<supported, mounted, pending>>
    /\ UNCHANGED <<searchVars, geoVars, cacheVars, hookVars, markerVars>>

\* The first render, in a browser with or without geolocation.
LocationInit ==
    /\ SearchIdle
    /\ CacheIdle
    /\ HookIdle
    /\ MarkerIdle
    /\ coordinates = Null
    /\ status = "idle"
    /\ accuracy = Null
    /\ supported \in BOOLEAN
    /\ mounted = FALSE
    /\ pending = 0
    /\ lastEvent = [kind |-> "none"]

LocationNext ==
    \/ MountEffect
    \/ RequestLocation
    \/ SuccessCallback
    \/ ErrorCallback
    \/ ClearLocation

LocationSpec == LocationInit /\ [][LocationNext]_vars

(***************************************************************************)
(* C22.  Facility data is cached after the first load: once a loadCentros  *)
(* call has completed successfully, every loadCentros call started later   *)
(* returns that same collection without fetching, and getCentros returns   *)
(* it.  `known` is the collection of the first successful load as it stood *)
(* when the call started.                                                  *)
(***************************************************************************)
C22_CachedAfterFirstLoad ==
    /\ \A c \in 1..MaxLoads :
          (loads[c].pc # "idle" /\ loads[c].known # Null)
              => /\ loads[c].pc = "done"
                 /\ ~loads[c].fetched
                 /\ loads[c].result = Return(loads[c].known)
    /\ (got # NotCalled /\ got.known # Null) => got.result = Return(got.known)

(***************************************************************************)
(* C23.  isLoading is true in every state in which a fetchNearest call     *)
(* has been started and has not finished, under every interleaving of      *)
(* fetchNearest calls, geolocation completions and clearResults.           *)
(***************************************************************************)
C23_LoadingWhileInFlight ==
    (\E f \in 1..MaxFetches : fetches[f].pc = "locating") => state.isLoading

(***************************************************************************)
(* C28.  geoError and appError are never both non-null, and whenever       *)
(* either is non-null the results list is empty.                           *)
(***************************************************************************)
C28_ErrorsExcludeResults ==
    /\ ~(state.geoError # Null /\ state.appError # Null)
    /\ (state.geoError # Null \/ state.appError # Null) => state.results = <<>>

\* A search showed results and a later one failed: the error stands alone.
C28_Witness ==
    /\ state.geoError # Null
    /\ fetches[1].pc = "done" /\ fetches[1].shown.results # <<>>
    /\ fetches[2].pc = "done" /\ fetches[2].shown.geoError # Null
    /\ fetches[2].shown = state

(***************************************************************************)
(* C29.  After clearResults, results stay empty and errors stay null until *)
(* a fetchNearest call started after that clear completes; a call that was *)
(* in flight when clearResults ran does not repopulate them.               *)
(***************************************************************************)
C29_ClearedStaysCleared ==
    clean => /\ state.results = <<>>
             /\ state.geoError = Null
             /\ state.appError = Null

(***************************************************************************)
(* C24.  UserMarkerManager keeps at most one marker across any sequence of *)
(* setPosition and remove calls: a setPosition without a marker creates    *)
(* it, a later one only moves it; marker and markerElement are both set    *)
(* or both null; remove, with or without a marker, leaves marker, element, *)
(* accuracy layer and accuracy source absent.                              *)
(***************************************************************************)
OneMarker ==
    /\ Cardinality(mapMarkers) <= 1
    /\ (marker = Null) <=> (markerElement = Null)
    /\ marker # Null => (mapMarkers = {marker.id} /\ markerElement.id = marker.id)
    /\ marker = Null => mapMarkers = {}
    /\ lastCall.fn = "remove" =>
          /\ marker = Null
          /\ markerElement = Null
          /\ mapSource = Null
          /\ ~mapLayer

CreatesThenMoves ==
    (calls' = calls + 1 /\ lastCall'.fn = "setPosition") =>
        IF marker = Null
        THEN marker' # Null /\ marker'.id = calls' /\ mapMarkers' = {calls'}
        ELSE /\ marker'.id = marker.id
             /\ mapMarkers' = mapMarkers
             /\ markerElement' = markerElement

C24_AtMostOneMarker == []OneMarker /\ [][CreatesThenMoves]_vars

\* A marker created after a remove and moved since, with its accuracy circle.
C24_Witness ==
    /\ marker # Null
    /\ marker.id >= 3
    /\ calls > marker.id
    /\ lastCall = [fn |-> "setPosition", hadMarker |-> TRUE]
    /\ mapLayer

(***************************************************************************)
(* C30.  In every state of useUserLocation: status 'success' implies       *)
(* coordinates are non-null; 'denied', 'unavailable' or 'timeout' implies  *)
(* coordinates and accuracy are null; hasLocation and hasError are never   *)
(* both true; an unknown geolocation error code yields 'unavailable'.      *)
(***************************************************************************)
C30_StatusMatchesLocation ==
    /\ status = "success" => coordinates # Null
    /\ status \in {"denied", "unavailable", "timeout"} =>
          (coordinates = Null /\ accuracy = Null)
    /\ ~(hasLocation /\ hasError)
    /\ (lastEvent.kind = "error" /\ lastEvent.code \notin DOMAIN statusMap) =>
          status = "unavailable"

\* An error of unknown code arrived while a location was held.
C30_Witness ==
    /\ lastEvent.kind = "error"
    /\ lastEvent.code = 0
    /\ lastEvent.had
    /\ status = "unavailable"

=============================================================================
